---- MODULE Spec2Model ----
(***************************************************************************)
(* Generation orchestrator of DeckGenie (src/generation_service.py) with   *)
(* the document assembler it delegates to (src/presentation_service.py).   *)
(*                                                                         *)
(* Threads interleave between atomic steps. A step is one commit to the    *)
(* Presentation row, or one access to the in-memory registry               *)
(* `active_generations`, or one log append on a failure or cancellation    *)
(* path; the progress rows a run logs directly before and after a status   *)
(* commit are appended in the step of that commit. Request threads         *)
(* (callers of start/cancel/cleanup) and background threads (runs)         *)
(* interleave freely between steps, as Python threads do.                  *)
(***************************************************************************)
EXTENDS Integers, Sequences, FiniteSets, TLC

VARIABLES
    jobs,          \* Presentation rows: id -> record
    slides,        \* Slide rows: set of [presentation_id, slide_number]
    citations,     \* Citation rows, in insertion order
    log,           \* GenerationLog rows, in insertion order
    registry,      \* GenerationService.active_generations
    runs,          \* background threads: run id -> locals and position
    calls,         \* request threads: caller -> current call and position
    ncalls,        \* calls issued so far
    now,           \* wall clock (datetime.utcnow()), in hours
    cache,         \* SearchCache rows: query_hash -> row
    lastop         \* the latest cache operation, its arguments and result

vars == <<jobs, slides, citations, log, registry, runs, calls, ncalls, now,
          cache, lastop>>

----------------------------------------------------------------------------
(* Bounds *)

MaxRuns == 2        \* background threads ever launched
MaxCalls == 3       \* calls of start/cancel/cleanup ever issued
MaxSlides == 1      \* slides in a generated outline
MaxTime == 1        \* clock ticks
MaxResearch == 1    \* research records returned by the research capability
MaxSlideCount == 3  \* requested slide count of a Job in the pipeline runs
MaxCacheTime == 192 \* hours the clock runs to in the cache runs
ClockStep == 24     \* hours between two observations of the cache

----------------------------------------------------------------------------
(* Universe *)

ExistingJobs == {1}              \* ids with a Presentation row
JobIds == {1, 2}                 \* ids a client may pass (2 has no row)
RunIds == 1..MaxRuns
Callers == {"c1", "c2"}          \* request threads
MainCaller == "c1"
MaxAgeChoices == {0}             \* max_age_hours arguments of cleanup
SlideCitations == {<< >>, <<1>>} \* 'citations' lists of a slide content

\* inputs of the pipeline runs: 'citations' lists with indices in range, out
\* of range and zero, and research sets below and above the three records
\* shown to a slide
PipelineCitations == {<< >>, <<0>>, <<1>>, <<2, 1>>, <<4, 1>>}
PipelineResearch == {0, 2, 4}

None == "None"

StatusOrder == <<"queued", "researching", "planning", "generating",
                 "assembling", "completed">>

CancelMessage == "Generation cancelled by user"
ContentFailedMessage == "Failed to generate presentation content"
ContentFailedLogMessage == "Presentation generation failed"
ExceptionText == "exception"

----------------------------------------------------------------------------
(* Presentation row *)

NewPresentation(slide_count) ==
    [status |-> "queued", progress |-> 0, current_step |-> None,
     slide_count |-> slide_count,
     error_message |-> None, file_path |-> None,
     generation_time |-> None, completed_at |-> None]

\* src/generation_service.py _log_step: one appended GenerationLog row
LogRow(pid, step, status, err) ==
    [presentation_id |-> pid, step_name |-> step, status |-> status,
     error_message |-> err]

\* _log_step overwriting the latest row instead of adding one
_log_step_UpdatesLatest(pid, step, status, err) ==
    log' = IF log = << >> THEN <<LogRow(pid, step, status, err)>>
           ELSE [log EXCEPT ![Len(log)] = LogRow(pid, step, status, err)]

_log_step(pid, step, status, err) ==
    log' = Append(log, LogRow(pid, step, status, err))

\* self.active_generations is a dict: its entries in insertion order, one
\* per key
RegistryKeys == {registry[k].id : k \in DOMAIN registry}

\* presentation_id in self.active_generations
Registered(j) == j \in RegistryKeys

\* del self.active_generations[presentation_id]
RegistryDel(j) == SelectSeq(registry, LAMBDA e : e.id # j)

\* self.active_generations[presentation_id] = {...}: a new key goes last,
\* an existing key keeps its place
RegistryPut(j, e) ==
    IF Registered(j)
    THEN [k \in DOMAIN registry |-> IF registry[k].id = j THEN e ELSE registry[k]]
    ELSE Append(registry, e)

\* locals of a background thread: outline is the sequence of slide numbers
\* of the assembler's outline, n its length, i the slides done, cc the
\* citation_counter, cits the 'citations' list of the slide content while
\* the slide loop holds one; cap_failed records that a capability the run called raised or fell back
IdleRun == [pc |-> "idle", job |-> 0, i |-> 0, n |-> 0, nres |-> 0, cc |-> 1,
            outline |-> << >>, cits |-> << >>, cap_failed |-> FALSE]
IdleCall == [op |-> "none", pc |-> "idle", job |-> 0, ret |-> None,
             thread |-> 0, stale |-> << >>, count |-> 0]

\* values as the Python code holds them: a list of records, a string, a
\* dict (the members that are read back) and None
PyList(items) == [kind |-> "list", value |-> items]
PyStr(text) == [kind |-> "str", value |-> <<text>>]
PyDict(members) == [kind |-> "dict", value |-> members]
PyNone == [kind |-> "none", value |-> << >>]

NoOp == [seq |-> 0, op |-> "none", namespace |-> None, query |-> None,
         value |-> PyNone, at |-> 0]

\* everything but the Presentation rows
InitRest ==
    /\ slides = {}
    /\ citations = << >>
    /\ log = << >>
    /\ registry = << >>
    /\ runs = [r \in RunIds |-> IdleRun]
    /\ calls = [c \in Callers |-> IdleCall]
    /\ ncalls = 0
    /\ now = 0
    /\ cache = << >>
    /\ lastop = NoOp

Init ==
    /\ \E n \in 1..MaxSlides :
           jobs = [j \in ExistingJobs |-> NewPresentation(n)]
    /\ InitRest

----------------------------------------------------------------------------
(* Helpers on rows and threads *)

SetRun(r, rec) == runs' = [runs EXCEPT ![r] = rec]
Goto(r, pc) == SetRun(r, [runs[r] EXCEPT !.pc = pc])
SetCall(c, rec) == calls' = [calls EXCEPT ![c] = rec]

\* Presentation.query.get(presentation_id) is not None
Exists(j) == j \in DOMAIN jobs

\* attribute assignments followed by db.session.commit()
Commit(j, upd) ==
    jobs' = [jobs EXCEPT ![j] =
                [f \in DOMAIN jobs[j] |->
                    IF f \in DOMAIN upd THEN upd[f] ELSE jobs[j][f]]]

\* a thread that was started and has not returned
Executing(r) == runs[r].pc \notin {"idle", "done"}

At(r, pc) == runs[r].pc = pc

----------------------------------------------------------------------------
(* _generate_presentation_background: the background run *)

\* appends of several GenerationLog rows in a row
LogAll(rows) == log' = log \o rows

\* the run logging generation_started before it looks for the Job
RunLoad_LogsFirst(r) ==
    /\ At(r, "load")
    /\ _log_step(runs[r].job, "generation_started", "started", None)
    /\ Goto(r, IF Exists(runs[r].job) THEN "begin" ELSE "fin_time")
    /\ UNCHANGED <<jobs, slides, citations, registry, calls, ncalls, now, cache, lastop>>

\* lines 56-62: load the Job; a missing Job goes straight to the finally block
RunLoad(r) ==
    /\ At(r, "load")
    /\ Goto(r, IF Exists(runs[r].job) THEN "begin" ELSE "fin_time")
    /\ UNCHANGED <<jobs, slides, citations, log, registry, calls, ncalls, now, cache, lastop>>

\* lines 65-73: log generation_started, status researching, log research
RunSetResearching(r) ==
    /\ At(r, "begin")
    /\ LogAll(<<LogRow(runs[r].job, "generation_started", "started", None),
                LogRow(runs[r].job, "research", "started", None)>>)
    /\ Commit(runs[r].job, [status |-> "researching", progress |-> 10,
                            current_step |-> "Gathering research data"])
    /\ Goto(r, "research")
    /\ UNCHANGED <<slides, citations, registry, calls, ncalls, now, cache, lastop>>

\* The research capability called at line 79: the number of records it
\* returns, flattened over the source types (lines 85-87).
get_comprehensive_research == 0..MaxResearch

\* lines 76-98: analysis and research, then log research/completed, status
\* planning, log planning/started. analyze_prompt returns json.loads of the
\* backend's text, so analysis.get (line 81) raises when that is not an
\* object.
RunSetPlanning(r, raises, nres) ==
    /\ At(r, "research")
    /\ IF raises
       THEN /\ SetRun(r, [runs[r] EXCEPT !.pc = "exc_log",
                                         !.cap_failed = TRUE])
            /\ UNCHANGED <<jobs, log>>
       ELSE /\ LogAll(<<LogRow(runs[r].job, "research", "completed", None),
                       LogRow(runs[r].job, "planning", "started", None)>>)
            /\ Commit(runs[r].job,
                      [status |-> "planning", progress |-> 30,
                       current_step |-> "Planning presentation structure"])
            /\ SetRun(r, [runs[r] EXCEPT !.pc = "outline", !.nres = nres])
    /\ UNCHANGED <<slides, citations, registry, calls, ncalls, now, cache, lastop>>

\* lines 101-121: outline, then log planning/completed, status generating,
\* log content_generation/started. The outline is json.loads of the
\* backend's text too: outline.get (line 108) raises when it is not an
\* object. The title adopted at lines 108-110 is not part of the state.
RunSetGenerating(r, raises) ==
    /\ At(r, "outline")
    /\ IF raises
       THEN /\ SetRun(r, [runs[r] EXCEPT !.pc = "exc_log",
                                         !.cap_failed = TRUE])
            /\ UNCHANGED <<jobs, log>>
       ELSE /\ LogAll(<<LogRow(runs[r].job, "planning", "completed", None),
                       LogRow(runs[r].job, "content_generation", "started",
                              None)>>)
            /\ Commit(runs[r].job,
                      [status |-> "generating", progress |-> 50,
                       current_step |-> "Generating presentation content"])
            /\ Goto(r, "asm_load")
    /\ UNCHANGED <<slides, citations, registry, calls, ncalls, now, cache, lastop>>

----------------------------------------------------------------------------
(* PresentationService.generate_presentation: the document assembler,      *)
(* called synchronously from the run at line 124                           *)

Min(a, b) == IF a < b THEN a ELSE b

\* line 101: slide_research_data = research_data[:3]
ResearchShown == 3
SlideResearchLen(nres) == Min(nres, ResearchShown)

\* lines 132-145: the citation loop of one slide. ids are the slide
\* content's citation indices, m = len(slide_research_data), cc the
\* citation_counter. Returns the rows added, the counter and whether
\* slide_research_data[citation_id - 1] raised IndexError.

\* the citation loop advancing citation_counter for a skipped index too
RECURSIVE HandleCitations_CountsSkipped(_, _, _, _)
HandleCitations_CountsSkipped(ids, m, cc, rows) ==
    IF ids = << >>
    THEN [rows |-> rows, cc |-> cc, raised |-> FALSE]
    ELSE LET cid == Head(ids)
             idx == cid - 1
         IN IF cid <= m
            THEN IF idx < -m \/ idx >= m
                 THEN [rows |-> rows, cc |-> cc, raised |-> TRUE]
                 ELSE HandleCitations_CountsSkipped(Tail(ids), m, cc + 1,
                          Append(rows, [presentation_id |-> 0,
                                        citation_number |-> cc]))
            ELSE HandleCitations_CountsSkipped(Tail(ids), m, cc + 1, rows)

RECURSIVE HandleCitations(_, _, _, _)
HandleCitations(ids, m, cc, rows) ==
    IF ids = << >>
    THEN [rows |-> rows, cc |-> cc, raised |-> FALSE]
    ELSE LET cid == Head(ids)
             idx == cid - 1
         IN IF cid <= m
            THEN IF idx < -m \/ idx >= m
                 THEN [rows |-> rows, cc |-> cc, raised |-> TRUE]
                 ELSE HandleCitations(Tail(ids), m, cc + 1,
                          Append(rows, [presentation_id |-> 0,
                                        citation_number |-> cc]))
            ELSE HandleCitations(Tail(ids), m, cc, rows)

\* line 148: progress = 40 + int((i + 1) / len(outline['slides']) * 40),
\* i 0-based; the float product is exact for the slide counts explored
SlideProgress(i, n) == 40 + ((i + 1) * 40) \div n

\* lines 67-75
AsmLoad(r) ==
    /\ At(r, "asm_load")
    /\ Commit(runs[r].job, [status |-> "planning", progress |-> 20,
                            current_step |-> "Creating presentation structure"])
    /\ Goto(r, "asm_generating")
    /\ UNCHANGED <<slides, citations, log, registry, calls, ncalls, now, cache, lastop>>

Max(a, b) == IF a > b THEN a ELSE b

\* src/ai_service.py lines 233-278: title and agenda, content slides
\* numbered range(3, slide_count), then a conclusion numbered slide_count;
\* the sequence of the descriptors' slide numbers
_generate_fallback_outline(slide_count) ==
    <<1, 2>> \o [k \in 1..Max(0, slide_count - 3) |-> k + 2] \o <<slide_count>>

\* src/ai_service.py lines 113-129: the backend's outline, or the fallback
\* when the backend call raises. A backend that answers is taken to answer
\* what the prompt of lines 83-110 asks for: slide_count descriptors
\* numbered from 1.
generate_presentation_outline(slide_count, fails) ==
    IF fails THEN _generate_fallback_outline(slide_count)
    ELSE [k \in 1..slide_count |-> k]

\* lines 77-97: the assembler asks for its own outline
AsmSetGenerating(r, fails) ==
    /\ At(r, "asm_generating")
    /\ Commit(runs[r].job, [status |-> "generating", progress |-> 40,
                            current_step |-> "Generating slide content"])
    /\ LET ol == generate_presentation_outline(jobs[runs[r].job].slide_count,
                                               fails)
       IN SetRun(r, [runs[r] EXCEPT !.pc = "asm_slide", !.outline = ol,
                                    !.n = Len(ol), !.i = 0, !.cc = 1,
                                    !.cap_failed = @ \/ fails])
    /\ UNCHANGED <<slides, citations, log, registry, calls, ncalls, now, cache, lastop>>

\* lines 99-150: one iteration of the slide loop, ending in its commit.
\* The unique constraints (presentation_id, slide_number) of Slide and
\* (presentation_id, citation_number) of Citation (src/presentation.py
\* lines 96 and 127) make the commit raise for a number the Job already
\* has; the commit then rolls the iteration back.
AsmSlide(r, ids) ==
    /\ At(r, "asm_slide")
    /\ runs[r].i < runs[r].n
    /\ LET j == runs[r].job
           done == runs[r].i + 1
           num == runs[r].outline[done]
           h == HandleCitations(ids, SlideResearchLen(runs[r].nres),
                                runs[r].cc, << >>)
           row == [presentation_id |-> j, slide_number |-> num]
           taken == {citations[k].citation_number :
                        k \in {x \in DOMAIN citations :
                                  citations[x].presentation_id = j}}
       IN IF \/ h.raised
             \/ row \in slides
             \/ \E k \in DOMAIN h.rows : h.rows[k].citation_number \in taken
          THEN /\ SetRun(r, [runs[r] EXCEPT !.pc = "asm_exc", !.cits = ids])
               /\ UNCHANGED <<jobs, slides, citations>>
          ELSE /\ slides' = slides \cup {row}
               /\ citations' = citations \o
                     [k \in 1..Len(h.rows) |->
                         [h.rows[k] EXCEPT !.presentation_id = j]]
               /\ Commit(j, [progress |-> SlideProgress(runs[r].i, runs[r].n)])
               /\ SetRun(r, [runs[r] EXCEPT !.i = done, !.cc = h.cc,
                       !.cits = ids,
                       !.pc = IF done = runs[r].n THEN "asm_assembling"
                              ELSE "asm_slide"])
    /\ UNCHANGED <<log, registry, calls, ncalls, now, cache, lastop>>

\* lines 156-160
AsmSetAssembling(r) ==
    /\ At(r, "asm_assembling")
    /\ Commit(runs[r].job, [status |-> "assembling", progress |-> 90,
                            current_step |-> "Finalizing presentation file"])
    /\ SetRun(r, [runs[r] EXCEPT !.pc = "asm_save", !.cits = << >>])
    /\ UNCHANGED <<slides, citations, log, registry, calls, ncalls, now, cache, lastop>>

\* the assembler recording the artifact path before the render raises
AsmSave_PathBeforeRender(r, raises) ==
    /\ At(r, "asm_save")
    /\ IF raises
       THEN /\ SetRun(r, [runs[r] EXCEPT !.pc = "asm_exc",
                                         !.cap_failed = TRUE])
            /\ Commit(runs[r].job, [file_path |-> "file"])
       ELSE /\ Commit(runs[r].job, [status |-> "completed", progress |-> 100,
                                    current_step |-> "Completed",
                                    file_path |-> "file",
                                    completed_at |-> "set"])
            /\ Goto(r, "log_completed")
    /\ UNCHANGED <<slides, citations, log, registry, calls, ncalls, now, cache, lastop>>

\* lines 162-174: render and save the file (may raise), then record it
AsmSave(r, raises) ==
    /\ At(r, "asm_save")
    /\ IF raises
       THEN /\ SetRun(r, [runs[r] EXCEPT !.pc = "asm_exc",
                                         !.cap_failed = TRUE])
            /\ UNCHANGED jobs
       ELSE /\ Commit(runs[r].job, [status |-> "completed", progress |-> 100,
                                    current_step |-> "Completed",
                                    file_path |-> "file",
                                    completed_at |-> "set"])
            /\ Goto(r, "log_completed")
    /\ UNCHANGED <<slides, citations, log, registry, calls, ncalls, now, cache, lastop>>

\* lines 176-182: the assembler's catch-all
AsmExcept(r) ==
    /\ At(r, "asm_exc")
    /\ Commit(runs[r].job, [status |-> "failed", error_message |-> ExceptionText])
    /\ SetRun(r, [runs[r] EXCEPT !.pc = "log_content_failed", !.cits = << >>])
    /\ UNCHANGED <<slides, citations, log, registry, calls, ncalls, now, cache, lastop>>

\* line 67 raising (the store refusing the query): the handler of lines
\* 176-182 then reads the local 'presentation', which was never bound, and
\* the UnboundLocalError leaves generate_presentation for the catch-all of
\* the caller (generation_service.py line 141)
AsmLoadFails(r) ==
    /\ At(r, "asm_load")
    /\ SetRun(r, [runs[r] EXCEPT !.pc = "exc_log", !.cap_failed = TRUE])
    /\ UNCHANGED <<jobs, slides, citations, log, registry, calls, ncalls, now, cache, lastop>>

\* line 181 raising (the store refusing the commit of the failure): the
\* handler has no handler of its own, the exception leaves
\* generate_presentation and the failure is not persisted
AsmExceptFails(r) ==
    /\ At(r, "asm_exc")
    /\ SetRun(r, [runs[r] EXCEPT !.pc = "exc_log", !.cits = << >>,
                                 !.cap_failed = TRUE])
    /\ UNCHANGED <<jobs, slides, citations, log, registry, calls, ncalls, now, cache, lastop>>

----------------------------------------------------------------------------
(* _generate_presentation_background, after the assembler returned *)

\* the two rows of lines 130-131 in the other order
RunLogCompleted_CompletedFirst(r) ==
    /\ At(r, "log_completed")
    /\ LogAll(<<LogRow(runs[r].job, "generation_completed", "completed",
                       None),
                LogRow(runs[r].job, "content_generation", "completed", None)>>)
    /\ Goto(r, "fin_time")
    /\ UNCHANGED <<jobs, slides, citations, registry, calls, ncalls, now, cache, lastop>>

\* lines 130-131
RunLogCompleted(r) ==
    /\ At(r, "log_completed")
    /\ LogAll(<<LogRow(runs[r].job, "content_generation", "completed", None),
                LogRow(runs[r].job, "generation_completed", "completed",
                       None)>>)
    /\ Goto(r, "fin_time")
    /\ UNCHANGED <<jobs, slides, citations, registry, calls, ncalls, now, cache, lastop>>

\* lines 133-134
RunLogContentFailed(r) ==
    /\ At(r, "log_content_failed")
    /\ _log_step(runs[r].job, "content_generation", "failed",
                 ContentFailedLogMessage)
    /\ Goto(r, "set_failed")
    /\ UNCHANGED <<jobs, slides, citations, registry, calls, ncalls, now, cache, lastop>>

\* lines 137-139 leaving the error_message the assembler recorded
RunSetFailed_KeepsAssemblerError(r) ==
    /\ At(r, "set_failed")
    /\ Commit(runs[r].job, [status |-> "failed"])
    /\ Goto(r, "fin_time")
    /\ UNCHANGED <<slides, citations, log, registry, calls, ncalls, now, cache, lastop>>

\* lines 137-139
RunSetFailed(r) ==
    /\ At(r, "set_failed")
    /\ Commit(runs[r].job, [status |-> "failed",
                            error_message |-> ContentFailedMessage])
    /\ Goto(r, "fin_time")
    /\ UNCHANGED <<slides, citations, log, registry, calls, ncalls, now, cache, lastop>>

\* lines 141-146: the run's catch-all logs first
RunExceptLog(r) ==
    /\ At(r, "exc_log")
    /\ _log_step(runs[r].job, "generation_error", "failed", ExceptionText)
    /\ Goto(r, "exc_set_failed")
    /\ UNCHANGED <<jobs, slides, citations, registry, calls, ncalls, now, cache, lastop>>

\* lines 149-154 recording the status without the exception text
RunExceptSetFailed_StatusOnly(r) ==
    /\ At(r, "exc_set_failed")
    /\ Commit(runs[r].job, [status |-> "failed"])
    /\ Goto(r, "fin_time")
    /\ UNCHANGED <<slides, citations, log, registry, calls, ncalls, now, cache, lastop>>

\* lines 149-154 leaving the Job as the failing step left it
RunExceptSetFailed_KeepsStatus(r) ==
    /\ At(r, "exc_set_failed")
    /\ Goto(r, "fin_time")
    /\ UNCHANGED <<jobs, slides, citations, log, registry, calls, ncalls, now, cache, lastop>>

\* lines 149-154
RunExceptSetFailed(r) ==
    /\ At(r, "exc_set_failed")
    /\ Commit(runs[r].job, [status |-> "failed", error_message |-> ExceptionText])
    /\ Goto(r, "fin_time")
    /\ UNCHANGED <<slides, citations, log, registry, calls, ncalls, now, cache, lastop>>

\* the elapsed time persisted only for a Job that completed
RunFinallyTime_CompletedOnly(r) ==
    /\ At(r, "fin_time")
    /\ IF Exists(runs[r].job) /\ jobs[runs[r].job].status = "completed"
       THEN Commit(runs[r].job, [generation_time |-> "set"])
       ELSE UNCHANGED jobs
    /\ Goto(r, "fin_del")
    /\ UNCHANGED <<slides, citations, log, registry, calls, ncalls, now, cache, lastop>>

\* lines 158-169: finally, first half: persist generation_time
RunFinallyTime(r) ==
    /\ At(r, "fin_time")
    /\ IF Exists(runs[r].job)
       THEN Commit(runs[r].job, [generation_time |-> "set"])
       ELSE UNCHANGED jobs
    /\ Goto(r, "fin_del")
    /\ UNCHANGED <<slides, citations, log, registry, calls, ncalls, now, cache, lastop>>

\* lines 171-173: finally, second half: release the registry entry, whoever
\* registered it
RunFinallyDel(r) ==
    /\ At(r, "fin_del")
    /\ registry' = IF Registered(runs[r].job) THEN RegistryDel(runs[r].job)
                   ELSE registry
    /\ Goto(r, "done")
    /\ UNCHANGED <<jobs, slides, citations, log, calls, ncalls, now, cache, lastop>>

----------------------------------------------------------------------------
(* Request threads *)

\* a request thread that is not inside a call
Free(c) == calls[c].pc \in {"idle", "returned"}

\* a client issues one more call
Issue ==
    /\ ncalls < MaxCalls
    /\ ncalls' = ncalls + 1

Return(c, op, j, ret) ==
    SetCall(c, [IdleCall EXCEPT !.op = op, !.pc = "returned", !.job = j,
                                !.ret = ret])

IdleRuns == {r \in RunIds : runs[r].pc = "idle"}
Launching == {c \in Callers : calls[c].pc = "start_thread"}

\* start_generation without the membership check of lines 32-33
StartCheck_NoMembershipTest(c, j) ==
    /\ Free(c)
    /\ Issue
    /\ Cardinality(IdleRuns) > Cardinality(Launching)
    /\ SetCall(c, [IdleCall EXCEPT !.op = "start", !.pc = "start_thread",
                                   !.job = j])
    /\ UNCHANGED <<jobs, slides, citations, log, registry, runs, now, cache, lastop>>

\* start_generation lines 30-33: the membership check
StartCheck(c, j) ==
    /\ Free(c)
    /\ Issue
    /\ IF Registered(j)
       THEN Return(c, "start", j, FALSE)
       ELSE /\ Cardinality(IdleRuns) > Cardinality(Launching)
            /\ SetCall(c, [IdleCall EXCEPT !.op = "start",
                                           !.pc = "start_thread", !.job = j])
    /\ UNCHANGED <<jobs, slides, citations, log, registry, runs, now, cache, lastop>>

\* start_generation lines 36-41: thread.start()
StartThread(c) ==
    /\ calls[c].pc = "start_thread"
    /\ LET r == CHOOSE x \in IdleRuns : \A y \in IdleRuns : x <= y
       IN /\ SetRun(r, [IdleRun EXCEPT !.pc = "load", !.job = calls[c].job])
          /\ SetCall(c, [calls[c] EXCEPT !.pc = "start_register", !.thread = r])
    /\ UNCHANGED <<jobs, slides, citations, log, registry, ncalls, now, cache, lastop>>

\* start_generation lines 43-48: register the thread, return True
StartRegister(c) ==
    /\ calls[c].pc = "start_register"
    /\ registry' = RegistryPut(calls[c].job,
                       [id |-> calls[c].job, thread |-> calls[c].thread,
                        started_at |-> now])
    /\ Return(c, "start", calls[c].job, TRUE)
    /\ UNCHANGED <<jobs, slides, citations, log, runs, ncalls, now, cache, lastop>>

\* What a request thread does once a cancel_generation call has returned
\* ret: a direct call returns it; inside cleanup_stale_generations (line
\* 302) the result is dropped and the loop goes on.
CancelReturn(c, ret) ==
    IF calls[c].op = "sweep"
    THEN IF Len(calls[c].stale) > 1
         THEN SetCall(c, [calls[c] EXCEPT !.pc = "cancel_check",
                                          !.stale = Tail(calls[c].stale),
                                          !.job = calls[c].stale[2]])
         ELSE Return(c, "sweep", 0, calls[c].count)
    ELSE Return(c, "cancel", calls[c].job, ret)

\* cancel_generation without the membership check of lines 259-260
CancelCall_NoMembershipTest(c, j) ==
    /\ Free(c)
    /\ Issue
    /\ SetCall(c, [IdleCall EXCEPT !.op = "cancel", !.pc = "cancel_set",
                                   !.job = j])
    /\ UNCHANGED <<jobs, slides, citations, log, registry, runs, now, cache, lastop>>

\* cancel_generation lines 258-260, called by a client
CancelCall(c, j) ==
    /\ Free(c)
    /\ Issue
    /\ IF Registered(j)
       THEN SetCall(c, [IdleCall EXCEPT !.op = "cancel", !.pc = "cancel_set",
                                        !.job = j])
       ELSE Return(c, "cancel", j, FALSE)
    /\ UNCHANGED <<jobs, slides, citations, log, registry, runs, now, cache, lastop>>

\* cancel_generation lines 258-260, called from cleanup_stale_generations
CancelCheck(c) ==
    /\ calls[c].pc = "cancel_check"
    /\ IF Registered(calls[c].job)
       THEN SetCall(c, [calls[c] EXCEPT !.pc = "cancel_set"])
       ELSE CancelReturn(c, FALSE)
    /\ UNCHANGED <<jobs, slides, citations, log, registry, runs, ncalls, now, cache, lastop>>

\* cancel_generation lines 262-267
CancelSetFailed(c) ==
    /\ calls[c].pc = "cancel_set"
    /\ IF Exists(calls[c].job)
       THEN Commit(calls[c].job, [status |-> "failed",
                                  error_message |-> CancelMessage])
       ELSE UNCHANGED jobs
    /\ SetCall(c, [calls[c] EXCEPT !.pc = "cancel_log"])
    /\ UNCHANGED <<slides, citations, log, registry, runs, ncalls, now, cache, lastop>>

\* cancel_generation lines 269-270
CancelLog(c) ==
    /\ calls[c].pc = "cancel_log"
    /\ _log_step(calls[c].job, "generation_cancelled", "completed", None)
    /\ SetCall(c, [calls[c] EXCEPT !.pc = "cancel_del"])
    /\ UNCHANGED <<jobs, slides, citations, registry, runs, ncalls, now, cache, lastop>>

\* cancel_generation lines 272-279: del raises KeyError when the entry is
\* gone by now; the except clause turns that into False
CancelDel(c) ==
    /\ calls[c].pc = "cancel_del"
    /\ IF Registered(calls[c].job)
       THEN /\ registry' = RegistryDel(calls[c].job)
            /\ CancelReturn(c, TRUE)
       ELSE /\ UNCHANGED registry
            /\ CancelReturn(c, FALSE)
    /\ UNCHANGED <<jobs, slides, citations, log, runs, ncalls, now, cache, lastop>>

\* age.total_seconds() > max_age_hours * 3600, in hours
IsStale(e, max_age_hours) == now - e.started_at > max_age_hours

\* cleanup_stale_generations lines 292-298: the ids of the stale entries, in
\* dict order
StaleGenerations(max_age_hours) ==
    LET st == SelectSeq(registry, LAMBDA e : IsStale(e, max_age_hours))
    IN [k \in DOMAIN st |-> st[k].id]

\* cleanup_stale_generations lines 291-304: scan, then cancel each stale id;
\* returns len(stale_generations)
SweepScan(c, max_age_hours) ==
    /\ Free(c)
    /\ Issue
    /\ LET st == StaleGenerations(max_age_hours)
       IN IF st = << >>
          THEN Return(c, "sweep", 0, 0)
          ELSE SetCall(c, [IdleCall EXCEPT !.op = "sweep", !.pc = "cancel_check",
                                           !.stale = st, !.job = st[1],
                                           !.count = Len(st)])
    /\ UNCHANGED <<jobs, slides, citations, log, registry, runs, now, cache, lastop>>

\* time passes
Tick ==
    /\ now < MaxTime
    /\ now' = now + 1
    /\ UNCHANGED <<jobs, slides, citations, log, registry, runs, calls, ncalls,
                   cache, lastop>>

----------------------------------------------------------------------------

\* one step of background thread r; research, fallbacks and cits are what
\* the research capability, the outline backend and the slide content
\* backend may answer
RunStepWith(r, research, fallbacks, cits) ==
    \/ RunLoad(r)
    \/ RunSetResearching(r)
    \/ \E raises \in BOOLEAN, nres \in research :
           RunSetPlanning(r, raises, nres)
    \/ \E raises \in BOOLEAN : RunSetGenerating(r, raises)
    \/ AsmLoad(r)
    \/ \E fails \in fallbacks : AsmSetGenerating(r, fails)
    \/ \E ids \in cits : AsmSlide(r, ids)
    \/ AsmSetAssembling(r)
    \/ \E raises \in BOOLEAN : AsmSave(r, raises)
    \/ AsmExcept(r)
    \/ RunLogCompleted(r)
    \/ RunLogContentFailed(r)
    \/ RunSetFailed(r)
    \/ RunExceptLog(r)
    \/ RunExceptSetFailed(r)
    \/ RunFinallyTime(r)
    \/ RunFinallyDel(r)

RunStep(r) == RunStepWith(r, get_comprehensive_research, {FALSE}, SlideCitations)

CallStep(c) ==
    \/ \E j \in JobIds : StartCheck(c, j)
    \/ StartThread(c)
    \/ StartRegister(c)
    \/ \E j \in JobIds : CancelCall(c, j)
    \/ CancelCheck(c)
    \/ CancelSetFailed(c)
    \/ CancelLog(c)
    \/ CancelDel(c)
    \/ \E h \in MaxAgeChoices : SweepScan(c, h)

\* One request thread issuing calls one after the other, concurrently with
\* the background runs it launched.
Next ==
    \/ \E r \in RunIds : RunStep(r)
    \/ CallStep(MainCaller)
    \/ Tick

Spec == Init /\ [][Next]_vars

\* Two request threads, each handling one request, concurrently with each
\* other and with the background runs.
NextRace ==
    \/ \E r \in RunIds : RunStep(r)
    \/ \E c \in Callers : calls[c].pc # "returned" /\ CallStep(c)
    \/ Tick

SpecRace == Init /\ [][NextRace]_vars

\* The pipeline on its own: one request thread that only starts
\* generations, Jobs of every requested slide count, and the full range of
\* answers of the capabilities. No cancellation and no sweep.
InitPipeline ==
    /\ \E n \in 1..MaxSlideCount :
           jobs = [j \in ExistingJobs |-> NewPresentation(n)]
    /\ InitRest

NextPipeline ==
    \/ \E r \in RunIds :
           RunStepWith(r, PipelineResearch, BOOLEAN, PipelineCitations)
    \/ \E j \in JobIds : StartCheck(MainCaller, j)
    \/ StartThread(MainCaller)
    \/ StartRegister(MainCaller)

SpecPipeline == InitPipeline /\ [][NextPipeline]_vars

\* The pipeline over a store that may refuse the assembler's first query
\* and the commit of its failure handler.
NextAssembler ==
    \/ \E r \in RunIds : RunStep(r)
    \/ \E r \in RunIds : AsmLoadFails(r)
    \/ \E r \in RunIds : AsmExceptFails(r)
    \/ \E j \in JobIds : StartCheck(MainCaller, j)
    \/ StartThread(MainCaller)
    \/ StartRegister(MainCaller)

SpecAssembler == Init /\ [][NextAssembler]_vars

----------------------------------------------------------------------------
(* Cache store: the SearchCache rows behind the research service           *)
(* (src/enhanced_data_service.py), the image service                       *)
(* (src/image_service.py) and the translation service                      *)
(* (src/translation_service.py). The three services carry the same two     *)
(* methods, differing in the key, the lifetime and the payload.            *)

Namespaces == {"web", "images", "translation"}

\* query texts, one of them beginning with the prefix of the image keys
Queries == {"cats", "images_cats"}

\* source_lang and target_lang of the translations
SourceLang == "en"
TargetLang == "fr"

\* what a service caches: result lists, or the text of a translation
Cacheable(ns) ==
    IF ns = "translation" THEN {PyStr("t1"), PyStr("t2")}
    ELSE {PyList(<<"r1">>), PyList(<<"r1", "r2">>)}

\* hashlib.sha256(text.encode()).hexdigest(), taken to be injective: the
\* digest determines the text
sha256(text) == "#" \o text

\* the query_hash a service looks a query up under:
\* enhanced_data_service.py line 293, image_service.py line 271,
\* translation_service.py line 280
CacheKey(ns, query) ==
    CASE ns = "web" -> sha256(query)
      [] ns = "images" -> sha256("images_" \o query)
      [] ns = "translation" ->
            "translate_" \o SourceLang \o "_" \o TargetLang \o "_"
                \o sha256(query)

\* self.cache_duration_hours of the service
cache_duration_hours(ns) == IF ns = "translation" THEN 168 ELSE 24

\* json.dumps: a list becomes an array, a dict an object
json_dumps(v) ==
    [json |-> IF v.kind = "list" THEN "array" ELSE "object", value |-> v.value]

\* json.loads: an array becomes a list, an object a dict
json_loads(t) ==
    IF t.json = "array" THEN PyList(t.value) ELSE PyDict(t.value)

\* what _cache_* serialises: the results, or for a translation the
\* result_data dict holding it (translation_service.py lines 298-303)
Payload(ns, results) ==
    IF ns = "translation" THEN PyDict(results.value) ELSE results

\* what _get_cached_* returns from a live row: the loaded results, or for
\* a translation result.get('translation')
Returned(ns, row) ==
    LET loaded == json_loads(row.results_json)
    IN IF ns = "translation" THEN PyStr(loaded.value[1]) ELSE loaded

\* SearchCache.query.filter_by(query_hash=...).first() is not None
Cached(k) == k \in DOMAIN cache

\* a row under key k exists and has not expired
Live(k) == Cached(k) /\ cache[k].expires_at > now

Op(op, ns, query, value) ==
    [seq |-> ncalls + 1, op |-> op, namespace |-> ns, query |-> query,
     value |-> value, at |-> now]

\* _get_cached_* returning an expired row
CacheGet_IgnoresExpiry(ns, query) ==
    /\ Issue
    /\ LET k == CacheKey(ns, query)
       IN IF Cached(k)
          THEN /\ cache' = [cache EXCEPT ![k].hit_count = @ + 1]
               /\ lastop' = Op("get", ns, query, Returned(ns, cache[k]))
          ELSE /\ cache' = cache
               /\ lastop' = Op("get", ns, query, PyNone)
    /\ UNCHANGED <<jobs, slides, citations, log, registry, runs, calls, now>>

\* _get_cached_* deleting the expired row it finds
CacheGet_EvictsExpired(ns, query) ==
    /\ Issue
    /\ LET k == CacheKey(ns, query)
       IN IF Cached(k) /\ cache[k].expires_at > now
          THEN /\ cache' = [cache EXCEPT ![k].hit_count = @ + 1]
               /\ lastop' = Op("get", ns, query, Returned(ns, cache[k]))
          ELSE /\ cache' = [h \in DOMAIN cache \ {k} |-> cache[h]]
               /\ lastop' = Op("get", ns, query, PyNone)
    /\ UNCHANGED <<jobs, slides, citations, log, registry, runs, calls, now>>

\* _get_cached_results, _get_cached_image_results, _get_cached_translation
CacheGet(ns, query) ==
    /\ Issue
    /\ LET k == CacheKey(ns, query)
       IN IF Cached(k) /\ cache[k].expires_at > now
          THEN /\ cache' = [cache EXCEPT ![k].hit_count = @ + 1]
               /\ lastop' = Op("get", ns, query, Returned(ns, cache[k]))
          ELSE /\ cache' = cache
               /\ lastop' = Op("get", ns, query, PyNone)
    /\ UNCHANGED <<jobs, slides, citations, log, registry, runs, calls, now>>

\* _cache_results, _cache_image_results, _cache_translation
CachePut(ns, query, results) ==
    /\ Issue
    /\ LET k == CacheKey(ns, query)
           expires_at == now + cache_duration_hours(ns)
       IN cache' =
             IF Cached(k)
             THEN [cache EXCEPT
                     ![k].results_json = json_dumps(Payload(ns, results)),
                     ![k].expires_at = expires_at,
                     ![k].hit_count = @ + 1]
             ELSE (k :> [query_hash |-> k,
                         query_text |-> IF ns = "translation"
                                        THEN "translate:" \o query
                                        ELSE query,
                         source_type |-> ns,
                         results_json |-> json_dumps(Payload(ns, results)),
                         expires_at |-> expires_at,
                         hit_count |-> 1]) @@ cache
    /\ lastop' = Op("put", ns, query, results)
    /\ UNCHANGED <<jobs, slides, citations, log, registry, runs, calls, now>>

\* time passes between two cache operations
CacheTick ==
    /\ now < MaxCacheTime
    /\ now' = now + ClockStep
    /\ UNCHANGED <<jobs, slides, citations, log, registry, runs, calls, ncalls,
                   cache, lastop>>

\* The cache on its own: the services' lookups and stores, one after the
\* other, with time passing in between.
NextCache ==
    \/ \E ns \in Namespaces, q \in Queries : CacheGet(ns, q)
    \/ \E ns \in Namespaces, q \in Queries :
           \E results \in Cacheable(ns) : CachePut(ns, q, results)
    \/ CacheTick

SpecCache == Init /\ [][NextCache]_vars

\* days_old arguments of cleanup_old_translations
RetentionDays == {0, 1}

HoursPerDay == 24

PyInt(n) == [kind |-> "int", value |-> <<n>>]

\* the keys of the rows cleanup_old_translations(days_old) selects:
\* translation_service.py lines 413-418
OldTranslations(days_old) ==
    {k \in DOMAIN cache :
        /\ cache[k].source_type = "translation"
        /\ cache[k].expires_at < now - days_old * HoursPerDay}

\* the cleanup selecting on the expiry alone
CacheSweep_AnySourceType(days_old) ==
    /\ Issue
    /\ LET old == {k \in DOMAIN cache :
                      cache[k].expires_at < now - days_old * HoursPerDay}
       IN /\ cache' = [k \in DOMAIN cache \ old |-> cache[k]]
          /\ lastop' = [days_old |-> days_old]
                           @@ Op("sweep", "translation", None,
                                 PyInt(Cardinality(old)))
    /\ UNCHANGED <<jobs, slides, citations, log, registry, runs, calls, now>>

\* cleanup_old_translations, lines 410-421: delete, commit, return the count
CacheSweep(days_old) ==
    /\ Issue
    /\ LET old == OldTranslations(days_old)
       IN /\ cache' = [k \in DOMAIN cache \ old |-> cache[k]]
          /\ lastop' = [days_old |-> days_old]
                           @@ Op("sweep", "translation", None,
                                 PyInt(Cardinality(old)))
    /\ UNCHANGED <<jobs, slides, citations, log, registry, runs, calls, now>>

\* The services storing results and the cleanup of the translations, one
\* call after the other, with time passing in between.
NextCacheSweep ==
    \/ \E ns \in Namespaces, q \in Queries :
           \E results \in Cacheable(ns) : CachePut(ns, q, results)
    \/ \E d \in RetentionDays : CacheSweep(d)
    \/ CacheTick

SpecCacheSweep == Init /\ [][NextCacheSweep]_vars

\* research_topic (src/enhanced_data_service.py lines 21-59)

\* max_results arguments: none, fewer than the sources return, the default
MaxResultsChoices == {0, 2, 10}

\* what the encyclopedia and the paper archive return when they answer: at
\* most one summary (lines 134-148), at most two papers (line 45)
WikipediaResults == <<"w1">>
ArxivResults == <<"a1", "a2">>

\* lines 211-289: the curated list of the topic's subject area; the topics
\* explored fall under the general one, which has a single record
_simulate_web_search(query) == <<"s1">>

\* results[:max_results] for max_results >= 0
Take(items, max_results) == SubSeq(items, 1, Min(max_results, Len(items)))

\* _search_wikipedia, _search_arxiv: the except clause of the method turns
\* a failure into the empty list (lines 151-155, 206-209)
SearchResults(answer, fails) == IF fails THEN << >> ELSE answer

\* the rows after _cache_results(query, results) on rows c
Upsert(c, query, results, at) ==
    LET k == CacheKey("web", query)
    IN IF k \in DOMAIN c
       THEN [c EXCEPT ![k].results_json = json_dumps(PyList(results)),
                      ![k].expires_at = at + cache_duration_hours("web"),
                      ![k].hit_count = @ + 1]
       ELSE (k :> [query_hash |-> k, query_text |-> query,
                   source_type |-> "web",
                   results_json |-> json_dumps(PyList(results)),
                   expires_at |-> at + cache_duration_hours("web"),
                   hit_count |-> 1]) @@ c

\* a failing source making the whole call return nothing
ResearchTopic_AbortsOnFailure(topic, max_results, wfails, afails) ==
    /\ Issue
    /\ LET k == CacheKey("web", topic)
           looked == IF Live(k) THEN [cache EXCEPT ![k].hit_count = @ + 1]
                     ELSE cache
           cached == IF Live(k) THEN Returned("web", cache[k]).value
                     ELSE << >>
           results == IF wfails \/ afails THEN << >>
                      ELSE WikipediaResults \o ArxivResults
                               \o _simulate_web_search(topic)
           ret == IF cached # << >> THEN Take(cached, max_results)
                  ELSE Take(results, max_results)
       IN /\ cache' = IF cached # << >> \/ results = << >> THEN looked
                      ELSE Upsert(looked, topic, results, now)
          /\ lastop' = [max_results |-> max_results,
                        wikipedia_fails |-> wfails, arxiv_fails |-> afails]
                           @@ Op("research", "web", topic, PyList(ret))
    /\ UNCHANGED <<jobs, slides, citations, log, registry, runs, calls, now>>

\* research_topic: the cached list when there is a live, non-empty one;
\* else the three searches in order, the store of a non-empty result, and
\* the first max_results records
ResearchTopic(topic, max_results, wfails, afails) ==
    /\ Issue
    /\ LET k == CacheKey("web", topic)
           looked == IF Live(k) THEN [cache EXCEPT ![k].hit_count = @ + 1]
                     ELSE cache
           cached == IF Live(k) THEN Returned("web", cache[k]).value
                     ELSE << >>
           results == SearchResults(WikipediaResults, wfails)
                          \o SearchResults(ArxivResults, afails)
                          \o _simulate_web_search(topic)
           ret == IF cached # << >> THEN Take(cached, max_results)
                  ELSE Take(results, max_results)
       IN /\ cache' = IF cached # << >> \/ results = << >> THEN looked
                      ELSE Upsert(looked, topic, results, now)
          /\ lastop' = [max_results |-> max_results,
                        wikipedia_fails |-> wfails, arxiv_fails |-> afails]
                           @@ Op("research", "web", topic, PyList(ret))
    /\ UNCHANGED <<jobs, slides, citations, log, registry, runs, calls, now>>

\* Research calls one after the other, with time passing in between.
NextResearch ==
    \/ \E topic \in Queries, max_results \in MaxResultsChoices,
          wfails \in BOOLEAN, afails \in BOOLEAN :
           ResearchTopic(topic, max_results, wfails, afails)
    \/ CacheTick

SpecResearch == Init /\ [][NextResearch]_vars

\* _cache_results by two threads. The method is a query (line 310), the
\* change of the loaded row or the add of a new one (312-324), and the
\* commit (326-330); another thread may commit between the query and the
\* commit. The locals of a call are kept in the thread's record.

\* lines 307-310: the key, the expiry, and the row found under the key
PutLookup(c, ns, query, results) ==
    /\ Free(c)
    /\ Issue
    /\ LET k == CacheKey(ns, query)
       IN SetCall(c, [IdleCall EXCEPT
              !.op = "put", !.pc = "put_commit",
              !.ret = [namespace |-> ns, query |-> query, results |-> results,
                       expires_at |-> now + cache_duration_hours(ns),
                       existing |-> Cached(k),
                       hit_count |-> IF Cached(k) THEN cache[k].hit_count
                                     ELSE 0,
                       committed |-> FALSE, raised |-> FALSE]])
    /\ UNCHANGED <<jobs, slides, citations, log, registry, runs, now, cache, lastop>>

\* lines 312-330: the UPDATE of the loaded row, or the INSERT of the new
\* one, which the unique query_hash (src/presentation.py line 204) refuses
\* when a row with the key was committed in the meantime; the except
\* clause swallows that error and rolls the insert back
PutCommit(c) ==
    /\ calls[c].pc = "put_commit"
    /\ LET a == calls[c].ret
           k == CacheKey(a.namespace, a.query)
           refused == ~a.existing /\ Cached(k)
       IN /\ cache' =
                 IF a.existing
                 THEN [cache EXCEPT
                         ![k].results_json =
                             json_dumps(Payload(a.namespace, a.results)),
                         ![k].expires_at = a.expires_at,
                         ![k].hit_count = a.hit_count + 1]
                 ELSE IF refused THEN cache
                 ELSE (k :> [query_hash |-> k,
                             query_text |-> IF a.namespace = "translation"
                                            THEN "translate:" \o a.query
                                            ELSE a.query,
                             source_type |-> a.namespace,
                             results_json |->
                                 json_dumps(Payload(a.namespace, a.results)),
                             expires_at |-> a.expires_at,
                             hit_count |-> 1]) @@ cache
          /\ lastop' = [seq |-> lastop.seq + 1, op |-> "put",
                        namespace |-> a.namespace, query |-> a.query,
                        value |-> a.results, at |-> now]
          /\ SetCall(c, [calls[c] EXCEPT
                 !.pc = "returned",
                 !.ret = [a EXCEPT !.committed = ~refused]])
    /\ UNCHANGED <<jobs, slides, citations, log, registry, runs, ncalls, now>>

\* Two threads, each storing results once, with time passing.
NextCacheRace ==
    \/ \E c \in Callers, ns \in Namespaces, q \in Queries :
           \E results \in Cacheable(ns) :
               calls[c].pc # "returned" /\ PutLookup(c, ns, q, results)
    \/ \E c \in Callers : PutCommit(c)
    \/ CacheTick

SpecCacheRace == Init /\ [][NextCacheRace]_vars

----------------------------------------------------------------------------
(* TranslationService.translate_presentation                               *)
(* (src/translation_service.py), on a presentation that was generated:     *)
(* here the Presentation and Slide rows carry their text columns           *)

\* target_language arguments: a supported code and an unknown one
TargetLanguages == {TargetLang, "xx"}

\* self.supported_languages, lines 14-27
supported_languages == {"en", "es", "fr", "de", "it", "pt", "ru", "ja", "ko",
                        "zh", "ar", "hi"}

\* _perform_translation for a text without a known phrase: the language
\* prefix of lines 261-276
_perform_translation(text) == "[FR] " \o text

\* translate_text, lines 97-112, on cache rows c at time 'now': the text
\* returned and the rows afterwards. An empty text is returned as it is;
\* a live cached translation is returned and its hit_count raised; else
\* the text is translated and the translation stored.
translate_text(c, text) ==
    LET k == CacheKey("translation", text)
        live == k \in DOMAIN c /\ c[k].expires_at > now
        looked == IF live THEN [c EXCEPT ![k].hit_count = @ + 1] ELSE c
        cached == IF live THEN json_loads(c[k].results_json).value[1] ELSE ""
        done == _perform_translation(text)
        payload == json_dumps(PyDict(<<done>>))
        expires_at == now + cache_duration_hours("translation")
    IN IF text = "" THEN [text |-> text, cache |-> c]
       ELSE IF cached # "" THEN [text |-> cached, cache |-> looked]
       ELSE [text |-> done,
             cache |-> IF k \in DOMAIN looked
                       THEN [looked EXCEPT ![k].results_json = payload,
                                           ![k].expires_at = expires_at,
                                           ![k].hit_count = @ + 1]
                       ELSE (k :> [query_hash |-> k,
                                   query_text |-> "translate:" \o text,
                                   source_type |-> "translation",
                                   results_json |-> payload,
                                   expires_at |-> expires_at,
                                   hit_count |-> 1]) @@ looked]

\* translate_text over a list of texts, one after the other
RECURSIVE TranslateAll(_, _, _)
TranslateAll(c, texts, out) ==
    IF texts = << >> THEN [texts |-> out, cache |-> c]
    ELSE LET t == translate_text(c, Head(texts))
         IN TranslateAll(t.cache, Tail(texts), Append(out, t.text))

\* Slide.query.filter_by(presentation_id=...).all(): the rows of Job j, by
\* slide number
RECURSIVE InOrder(_)
InOrder(rows) ==
    IF rows = {} THEN << >>
    ELSE LET first == CHOOSE x \in rows :
                          \A y \in rows : x.slide_number <= y.slide_number
         IN <<first>> \o InOrder(rows \ {first})

\* the texts _translate_slide hands to translate_text, lines 144-160: the
\* title, the bullet points, the speaker notes
SlideTexts(slide) ==
    <<slide.title>> \o slide.bullet_points \o <<slide.speaker_notes>>

\* the slide with those texts replaced, lines 147-165
WithTexts(slide, texts) ==
    [slide EXCEPT !.title = texts[1],
                  !.bullet_points = SubSeq(texts, 2, Len(texts) - 1),
                  !.speaker_notes = texts[Len(texts)]]

\* lines 71-72: the slides translated one after the other
RECURSIVE TranslateSlides(_, _, _)
TranslateSlides(c, todo, out) ==
    IF todo = << >> THEN [slides |-> out, cache |-> c]
    ELSE LET t == TranslateAll(c, SlideTexts(Head(todo)), << >>)
         IN TranslateSlides(t.cache, Tail(todo),
                            out \cup {WithTexts(Head(todo), t.texts)})

TranslateReturn(c, j, lang, ret) ==
    SetCall(c, [target_language |-> lang]
                  @@ [IdleCall EXCEPT !.op = "translate", !.pc = "returned",
                                      !.job = j, !.ret = ret])

\* translate_presentation checking the language after the commit
TranslatePresentation_ValidatesLate(c, j, lang) ==
    /\ Free(c)
    /\ Issue
    /\ IF ~Exists(j)
       THEN /\ TranslateReturn(c, j, lang, FALSE)
            /\ UNCHANGED <<jobs, slides, cache>>
       ELSE LET title == translate_text(cache, jobs[j].title)
                mine == {x \in slides : x.presentation_id = j}
                t == TranslateSlides(title.cache, InOrder(mine), {})
            IN /\ jobs' = [jobs EXCEPT ![j].title = title.text,
                                       ![j].language = lang]
               /\ slides' = (slides \ mine) \cup t.slides
               /\ cache' = t.cache
               /\ TranslateReturn(c, j, lang, lang \in supported_languages)
    /\ UNCHANGED <<citations, log, registry, runs, now, lastop>>

\* translate_presentation, lines 50-83
TranslatePresentation(c, j, lang) ==
    /\ Free(c)
    /\ Issue
    /\ IF ~Exists(j) \/ lang \notin supported_languages
       THEN /\ TranslateReturn(c, j, lang, FALSE)
            /\ UNCHANGED <<jobs, slides, cache>>
       ELSE LET title == translate_text(cache, jobs[j].title)
                mine == {x \in slides : x.presentation_id = j}
                t == TranslateSlides(title.cache, InOrder(mine), {})
            IN /\ jobs' = [jobs EXCEPT ![j].title = title.text,
                                       ![j].language = lang]
               /\ slides' = (slides \ mine) \cup t.slides
               /\ cache' = t.cache
               /\ TranslateReturn(c, j, lang, TRUE)
    /\ UNCHANGED <<citations, log, registry, runs, now, lastop>>

\* speaker notes of a generated slide: none, or some
SpeakerNotes == {"", "Notes"}

\* a generated presentation: completed, in English, with its Slide rows
\* numbered from 1 and a Citation row
InitTranslate ==
    /\ jobs = [j \in ExistingJobs |->
                  [title |-> "Cats", language |-> "en"]
                      @@ [NewPresentation(MaxSlideCount) EXCEPT
                             !.status = "completed", !.progress = 100,
                             !.current_step = "Completed",
                             !.file_path = "file", !.completed_at = "set",
                             !.generation_time = "set"]]
    /\ \E n \in 1..MaxSlideCount, notes \in SpeakerNotes :
           slides = {[presentation_id |-> j, slide_number |-> k,
                      slide_type |-> IF k = 1 THEN "title" ELSE "content",
                      title |-> IF k = 1 THEN "Cats" ELSE "Overview",
                      bullet_points |-> IF k = 1 THEN << >>
                                        ELSE <<"Point">>,
                      speaker_notes |-> notes] :
                        j \in ExistingJobs, k \in 1..n}
    /\ citations = [k \in 1..1 |->
                       [presentation_id |-> 1, citation_number |-> k]]
    /\ log = << >>
    /\ registry = << >>
    /\ runs = [r \in RunIds |-> IdleRun]
    /\ calls = [c \in Callers |-> IdleCall]
    /\ ncalls = 0
    /\ now = 0
    /\ cache = << >>
    /\ lastop = NoOp

\* Translations of a generated presentation, one call after the other,
\* with time passing in between.
NextTranslate ==
    \/ \E j \in JobIds, lang \in TargetLanguages :
           TranslatePresentation(MainCaller, j, lang)
    \/ CacheTick

SpecTranslate == InitTranslate /\ [][NextTranslate]_vars

----------------------------------------------------------------------------
(* get_generation_status *)

\* .limit(10) of the log query
LogLimit == 10

\* the log query without the descending order
RecentLogs_OldestFirst(j) ==
    LET rows == SelectSeq(log, LAMBDA e : e.presentation_id = j)
        m == Min(Len(rows), LogLimit)
    IN [k \in 1..m |->
           [step_name |-> rows[k].step_name,
            status |-> rows[k].status,
            error_message |-> rows[k].error_message]]

\* lines 217-219 and 229-239: the GenerationLog rows of Job j ordered by
\* created_at descending, at most LogLimit of them, as the dicts returned
RecentLogs(j) ==
    LET rows == SelectSeq(log, LAMBDA e : e.presentation_id = j)
        m == Min(Len(rows), LogLimit)
    IN [k \in 1..m |->
           [step_name |-> rows[Len(rows) + 1 - k].step_name,
            status |-> rows[Len(rows) + 1 - k].status,
            error_message |-> rows[Len(rows) + 1 - k].error_message]]

NotFound == [error |-> "Presentation not found"]

\* lines 212-219: the two queries; a missing Job returns at once
StatusRead(c, j) ==
    /\ Free(c)
    /\ Issue
    /\ IF ~Exists(j)
       THEN Return(c, "status", j, NotFound)
       ELSE SetCall(c, [IdleCall EXCEPT
               !.op = "status", !.pc = "status_active", !.job = j,
               !.ret = [status |-> jobs[j].status,
                        progress |-> jobs[j].progress,
                        current_step |-> jobs[j].current_step,
                        error_message |-> jobs[j].error_message,
                        generation_time |-> jobs[j].generation_time,
                        logs |-> RecentLogs(j)]])
    /\ UNCHANGED <<jobs, slides, citations, log, registry, runs, now, cache, lastop>>

\* lines 221-241: the registry lookup for is_active, and the return
StatusReturn(c) ==
    /\ calls[c].pc = "status_active"
    /\ Return(c, "status", calls[c].job,
              [presentation_id |-> calls[c].job,
               status |-> calls[c].ret.status,
               progress |-> calls[c].ret.progress,
               current_step |-> calls[c].ret.current_step,
               error_message |-> calls[c].ret.error_message,
               generation_time |-> calls[c].ret.generation_time,
               is_active |-> Registered(calls[c].job),
               logs |-> calls[c].ret.logs])
    /\ UNCHANGED <<jobs, slides, citations, log, registry, runs, ncalls, now,
                   cache, lastop>>

\* One request thread that starts and cancels generations and polls their
\* status,
\* concurrently with the background runs.
NextStatus ==
    \/ \E r \in RunIds : RunStep(r)
    \/ \E j \in JobIds : StartCheck(MainCaller, j)
    \/ StartThread(MainCaller)
    \/ StartRegister(MainCaller)
    \/ \E j \in JobIds : CancelCall(MainCaller, j)
    \/ CancelSetFailed(MainCaller)
    \/ CancelLog(MainCaller)
    \/ CancelDel(MainCaller)
    \/ \E j \in JobIds : StatusRead(MainCaller, j)
    \/ StatusReturn(MainCaller)

SpecStatus == Init /\ [][NextStatus]_vars

\* One request thread that starts and cancels generations of the Jobs that
\* exist, concurrently with the background runs. A started thread is scheduled again and again
\* and every capability it calls returns, so a run that can take a step
\* eventually takes one.
NextTermination ==
    \/ \E r \in RunIds : RunStep(r)
    \/ \E j \in ExistingJobs : StartCheck(MainCaller, j)
    \/ StartThread(MainCaller)
    \/ StartRegister(MainCaller)
    \/ \E j \in ExistingJobs : CancelCall(MainCaller, j)
    \/ CancelSetFailed(MainCaller)
    \/ CancelLog(MainCaller)
    \/ CancelDel(MainCaller)

SpecTermination ==
    /\ Init
    /\ [][NextTermination]_vars
    /\ \A r \in RunIds : WF_vars(RunStep(r))

----------------------------------------------------------------------------
(* Properties *)

\* the background runs launched for Job j that have not returned
ExecutingRuns(j) == {r \in RunIds : Executing(r) /\ runs[r].job = j}

\* the background runs ever launched for Job j
LaunchedRuns(j) == {r \in RunIds : runs[r].pc # "idle" /\ runs[r].job = j}

\* position of a status in the pipeline order; failed is terminal
Rank(st) ==
    IF st = "failed" THEN Len(StatusOrder) + 1
    ELSE CHOOSE k \in 1..Len(StatusOrder) : StatusOrder[k] = st

\* this step is the first step of a call of operation op by request thread
\* c: the call counter moved and only c's record may have changed
Enters(c, op) ==
    /\ ncalls' = ncalls + 1
    /\ Free(c)
    /\ \A d \in Callers \ {c} : calls'[d] = calls[d]
    /\ calls'[c].op = op
    /\ calls'[c].pc # "idle"

CancelledRows(j) ==
    {k \in DOMAIN log : /\ log[k].presentation_id = j
                        /\ log[k].step_name = "generation_cancelled"}

\* C1: at most one background run per Job id is executing at any moment.
C1_OneRunPerJob ==
    \A j \in JobIds : Cardinality(ExecutingRuns(j)) <= 1

\* C2: in every step the persisted progress of a Job does not decrease
\* while its status is not failed.
C2_ProgressMonotone ==
    [][\A j \in ExistingJobs :
          (jobs[j].status # "failed" /\ jobs'[j].status # "failed")
              => jobs'[j].progress >= jobs[j].progress]_vars

\* C3: every change of a Job's status moves it strictly forward in the
\* pipeline order or sets it to failed.
C3_StatusForward ==
    [][\A j \in ExistingJobs :
          jobs'[j].status # jobs[j].status
              => \/ jobs'[j].status = "failed"
                 \/ Rank(jobs[j].status) < Rank(jobs'[j].status)]_vars

\* C4: in every reachable state, status = completed iff completed_at is set
\* iff progress = 100.
C4_CompletedIff ==
    \A j \in ExistingJobs :
        /\ (jobs[j].status = "completed") <=> (jobs[j].completed_at # None)
        /\ (jobs[j].status = "completed") <=> (jobs[j].progress = 100)

\* C5: for a Job started once, a status of completed or failed is never
\* changed to another value by a later step.
C5_TerminalStatus ==
    [][\A j \in ExistingJobs :
          (Cardinality(LaunchedRuns(j)) <= 1
             /\ jobs[j].status \in {"completed", "failed"})
              => jobs'[j].status = jobs[j].status]_vars

\* C6: a start call on a Job id that is in the registry returns false in
\* its first step and changes neither the registry, nor any Job, Slide,
\* Citation or log row, nor launches a run.
C6_StartRegisteredRejected ==
    [][\A c \in Callers :
          (Enters(c, "start") /\ Registered(calls'[c].job))
              => /\ calls'[c].pc = "returned"
                 /\ calls'[c].ret = FALSE
                 /\ UNCHANGED <<registry, jobs, slides, citations, log, runs>>
      ]_vars

C6_Witness ==
    \E c \in Callers :
        /\ calls[c].op = "start" /\ calls[c].pc = "returned"
        /\ calls[c].ret = FALSE
        /\ Registered(calls[c].job)
        /\ ExecutingRuns(calls[c].job) # {}

\* C7: of two interleaved start calls on the same unregistered Job only one
\* gets past the membership test (each call past it returns true and
\* launches a run).
C7_StartInsertIfAbsent ==
    \A j \in JobIds :
        Cardinality({c \in Callers :
            /\ calls[c].op = "start" /\ calls[c].job = j
            /\ calls[c].pc \in {"start_thread", "start_register"}}) <= 1

\* C8: when every run launched for a Job id has ended and no start call for
\* it is in progress, the id is not in the registry.
C8_FinalizerReleases ==
    \A j \in JobIds :
        ( /\ LaunchedRuns(j) # {}
          /\ ExecutingRuns(j) = {}
          /\ \A c \in Callers :
                 ~(calls[c].op = "start" /\ calls[c].job = j
                     /\ calls[c].pc \in {"start_thread", "start_register"}) )
            => ~Registered(j)

\* C9: a cancel call that found its Job registered returns true, and when
\* it returns the Job is failed with the cancellation message, the id is
\* not in the registry and a generation_cancelled row is in the log.
C9_CancelRegistered ==
    [][\A c \in Callers :
          (calls[c].op = "cancel" /\ calls[c].pc = "cancel_del"
             /\ calls'[c].pc = "returned")
              => LET j == calls[c].job
                 IN /\ calls'[c].ret = TRUE
                    /\ ~(j \in {registry'[k].id : k \in DOMAIN registry'})
                    /\ CancelledRows(j) # {}
                    /\ Exists(j) =>
                          /\ jobs'[j].status = "failed"
                          /\ jobs'[j].error_message = CancelMessage]_vars

\* C10: a cancel call on a Job id that is not in the registry (from a
\* client or from the stale sweep) returns false in its first step and
\* leaves every Job, Slide, Citation and log row and the registry
\* unchanged.
C10_CancelUnregisteredRejected ==
    [][\A c \in Callers :
          /\ (Enters(c, "cancel") /\ ~Registered(calls'[c].job))
               => /\ calls'[c].pc = "returned"
                  /\ calls'[c].ret = FALSE
                  /\ UNCHANGED <<registry, jobs, slides, citations, log, runs>>
          /\ (calls[c].pc = "cancel_check" /\ calls'[c] # calls[c]
                /\ ~Registered(calls[c].job))
               => /\ calls'[c].pc # "cancel_set"
                  /\ UNCHANGED <<registry, jobs, slides, citations, log, runs>>
      ]_vars

C10_Witness ==
    \E c \in Callers :
        /\ calls[c].op = "cancel" /\ calls[c].pc = "returned"
        /\ calls[c].ret = FALSE
        /\ calls[c].job \in ExistingJobs
        /\ jobs[calls[c].job].status = "completed"
        /\ CancelledRows(calls[c].job) = {}
        /\ ~Registered(calls[c].job)

\* the Slide rows and the Citation rows of Job j
SlidesOf(j) == {s \in slides : s.presentation_id = j}
CitationsOf(j) == SelectSeq(citations, LAMBDA c : c.presentation_id = j)

\* C11: a run that was the only one launched for its Job, got zero research
\* results, saw no capability raise or fall back, and has ended, leaves the
\* Job completed with exactly slide_count Slide rows and no Citation row,
\* whatever citation indices the slide contents carried.
C11_ZeroResearchCompletes ==
    \A r \in RunIds :
        ( /\ runs[r].pc = "done"
          /\ Exists(runs[r].job)
          /\ LaunchedRuns(runs[r].job) = {r}
          /\ runs[r].nres = 0
          /\ ~runs[r].cap_failed )
            => /\ jobs[runs[r].job].status = "completed"
               /\ Cardinality(SlidesOf(runs[r].job))
                      = jobs[runs[r].job].slide_count
               /\ CitationsOf(runs[r].job) = << >>

ContentFailedRows(j) ==
    {k \in DOMAIN log : /\ log[k].presentation_id = j
                        /\ log[k].step_name = "content_generation"
                        /\ log[k].status = "failed"}

\* run r, the only one launched for its Job, went through the whole slide
\* loop, had the render of lines 162-163 raise, and is past the failure
\* handling
RenderFailed(r) ==
    /\ runs[r].pc \in {"fin_time", "fin_del", "done"}
    /\ Exists(runs[r].job)
    /\ LaunchedRuns(runs[r].job) = {r}
    /\ runs[r].n > 0
    /\ runs[r].i = runs[r].n
    /\ ContentFailedRows(runs[r].job) # {}

\* C12: when the render fails during assembly, the run ends with the Job
\* failed, a non-empty error_message and no artifact path recorded.
C12_RenderFailure ==
    \A r \in RunIds :
        RenderFailed(r)
            => /\ jobs[runs[r].job].status = "failed"
               /\ jobs[runs[r].job].error_message # None
               /\ jobs[runs[r].job].file_path = None

C12_Witness ==
    \E r \in RunIds :
        /\ RenderFailed(r)
        /\ runs[r].pc = "done"
        /\ jobs[runs[r].job].status = "failed"
        /\ Cardinality(SlidesOf(runs[r].job)) = runs[r].n

\* C13: the outline the assembler got for a Job has exactly slide_count
\* descriptors, numbered 1..slide_count in order, whether the backend
\* answered or the fallback skeleton was used.
C13_OutlineExactlyN ==
    \A r \in RunIds :
        runs[r].outline # << >>
            => runs[r].outline
                  = [k \in 1..jobs[runs[r].job].slide_count |-> k]

CitationNumbers(j) ==
    {CitationsOf(j)[k].citation_number : k \in DOMAIN CitationsOf(j)}

\* C14: in every reachable state the Citation rows of a Job carry exactly
\* the numbers 1..k, k the number of its Citation rows.
C14_CitationsContiguous ==
    \A j \in JobIds : CitationNumbers(j) = 1..Len(CitationsOf(j))

\* three Citation rows of a Job whose slides also carried an index that was
\* skipped
C14_Witness ==
    \E r \in RunIds :
        /\ runs[r].pc = "done"
        /\ runs[r].nres = 2
        /\ runs[r].i >= 2
        /\ Len(CitationsOf(runs[r].job)) = 3
        /\ CitationNumbers(runs[r].job) = {1, 2, 3}

\* C15: a get of (namespace, query) that directly follows a put of the same
\* (namespace, query) returns the results the put stored and raises the
\* entry's hit_count by at least 1 when it comes before the entry's expiry,
\* and returns a miss when it comes at or after the expiry.
C15_RoundTrip ==
    [][( /\ lastop.op = "put"
         /\ lastop'.op = "get"
         /\ lastop'.seq = lastop.seq + 1
         /\ lastop'.namespace = lastop.namespace
         /\ lastop'.query = lastop.query )
          => LET k == CacheKey(lastop.namespace, lastop.query)
             IN IF now < lastop.at + cache_duration_hours(lastop.namespace)
                THEN /\ lastop'.value = lastop.value
                     /\ cache'[k].hit_count >= cache[k].hit_count + 1
                ELSE lastop'.value = PyNone
      ]_vars

\* a translation read back three days after it was stored
C15_Witness ==
    /\ lastop.op = "get"
    /\ lastop.seq = 2
    /\ lastop.namespace = "translation"
    /\ lastop.value = PyStr("t2")
    /\ lastop.at = 3 * ClockStep
    /\ cache[CacheKey("translation", lastop.query)].hit_count = 2

\* C16: the key of a cache row belongs to the namespace that stored the
\* row: no query of another namespace has the same key.
C16_NamespacesDisjoint ==
    \A k \in DOMAIN cache :
        \A ns \in Namespaces \ {cache[k].source_type}, q \in Queries :
            CacheKey(ns, q) # k

LogRowsOf(j) == SelectSeq(log, LAMBDA e : e.presentation_id = j)

\* C17: get_generation_status changes no Job, Slide, Citation or log row,
\* no run and not the registry. Its first step returns the not-found
\* result for a missing Job, and else reads the Job's persisted status,
\* progress, step, error and generation time and the Job's latest log rows,
\* at most 10 and newest first; its second step reports is_active as the
\* registry membership of the Job and returns what the first step read.
C17_StatusReadOnly ==
    [][\A c \in Callers :
          /\ Enters(c, "status")
               => /\ UNCHANGED <<jobs, slides, citations, log, registry, runs>>
                  /\ IF Exists(calls'[c].job)
                     THEN LET j == calls'[c].job
                              got == calls'[c].ret
                              rows == LogRowsOf(j)
                          IN /\ calls'[c].pc = "status_active"
                             /\ got.status = jobs[j].status
                             /\ got.progress = jobs[j].progress
                             /\ got.current_step = jobs[j].current_step
                             /\ got.error_message = jobs[j].error_message
                             /\ got.generation_time = jobs[j].generation_time
                             /\ Len(got.logs) = Min(Len(rows), 10)
                             /\ \A k \in 1..Len(got.logs) :
                                   /\ got.logs[k].step_name
                                         = rows[Len(rows) + 1 - k].step_name
                                   /\ got.logs[k].status
                                         = rows[Len(rows) + 1 - k].status
                     ELSE /\ calls'[c].pc = "returned"
                          /\ calls'[c].ret = NotFound
          /\ (calls[c].pc = "status_active" /\ calls'[c] # calls[c])
               => /\ UNCHANGED <<jobs, slides, citations, log, registry, runs>>
                  /\ calls'[c].pc = "returned"
                  /\ calls'[c].ret.is_active = Registered(calls[c].job)
                  /\ calls'[c].ret.status = calls[c].ret.status
                  /\ calls'[c].ret.progress = calls[c].ret.progress
                  /\ calls'[c].ret.error_message = calls[c].ret.error_message
                  /\ calls'[c].ret.logs = calls[c].ret.logs
      ]_vars

\* a status returned for a registered Job that has more than ten log rows
C17_Witness ==
    \E c \in Callers :
        /\ calls[c].op = "status"
        /\ calls[c].pc = "returned"
        /\ calls[c].job \in ExistingJobs
        /\ calls[c].ret.is_active
        /\ Len(calls[c].ret.logs) = LogLimit
        /\ Len(LogRowsOf(calls[c].job)) > LogLimit

\* C18: a sweep that found exactly one stale entry returns the number of
\* entries it cancelled: 1 when its cancel removed the entry, 0 when the
\* entry's run had finished and removed it before the cancel got to it.
C18_SweepCountsCleaned ==
    [][\A c \in Callers :
          ( /\ calls[c].op = "sweep"
            /\ calls[c].count = 1
            /\ calls[c].pc \in {"cancel_check", "cancel_del"}
            /\ calls'[c].pc = "returned" )
              => calls'[c].ret
                    = IF calls[c].pc = "cancel_del" /\ Registered(calls[c].job)
                      THEN 1 ELSE 0
      ]_vars

\* the rows the pipeline appends when a stage is reached, in order
PipelineOrder ==
    << <<"generation_started", "started">>, <<"research", "completed">>,
       <<"planning", "completed">>, <<"content_generation", "completed">>,
       <<"generation_completed", "completed">> >>

\* the rows of Job j that are one of these, as <<step_name, status>>
Milestones(j) ==
    LET rows == SelectSeq(log, LAMBDA e :
                    /\ e.presentation_id = j
                    /\ \E k \in DOMAIN PipelineOrder :
                          PipelineOrder[k] = <<e.step_name, e.status>>)
    IN [k \in DOMAIN rows |-> <<rows[k].step_name, rows[k].status>>]

IsPrefix(s, t) == Len(s) <= Len(t) /\ \A k \in DOMAIN s : s[k] = t[k]

GenerationCompletedRows(j) ==
    {k \in DOMAIN log : /\ log[k].presentation_id = j
                        /\ log[k].step_name = "generation_completed"}

\* C19: while a Job has been launched once and not cancelled, its stage
\* rows appear in pipeline order (generation_started/started,
\* research/completed, planning/completed, content_generation/completed,
\* generation_completed/completed), a run that ended completed has appended
\* all five, and a generation_completed row is there only when the
\* assembler returned success and the status is completed.
C19_LogOrder ==
    \A j \in ExistingJobs :
        Cardinality(LaunchedRuns(j)) = 1
            => /\ IsPrefix(Milestones(j), PipelineOrder)
               /\ GenerationCompletedRows(j) # {}
                     => /\ jobs[j].status = "completed"
                        /\ ContentFailedRows(j) = {}
               /\ \A r \in LaunchedRuns(j) :
                     (runs[r].pc = "done" /\ jobs[j].status = "completed")
                         => Milestones(j) = PipelineOrder

C19_Witness ==
    \E r \in RunIds :
        /\ runs[r].pc = "done"
        /\ Exists(runs[r].job)
        /\ ~runs[r].cap_failed
        /\ LaunchedRuns(runs[r].job) = {r}
        /\ jobs[runs[r].job].status = "completed"
        /\ Milestones(runs[r].job) = PipelineOrder
        /\ Len(LogRowsOf(runs[r].job)) = 8

\* run r, the only one launched for its Job, had the assembler return
\* failure and is past the failure handling of lines 132-139
AssemblerFailed(r) ==
    /\ runs[r].pc \in {"fin_time", "fin_del", "done"}
    /\ Exists(runs[r].job)
    /\ LaunchedRuns(runs[r].job) = {r}
    /\ ContentFailedRows(runs[r].job) # {}

\* C20: after the assembler returned failure the log has a
\* content_generation/failed row carrying an error message, the Job is
\* failed with that same message as error_message, and the log has no
\* generation_completed row.
C20_AssemblerFailure ==
    \A r \in RunIds :
        AssemblerFailed(r)
            => /\ jobs[runs[r].job].status = "failed"
               /\ \A k \in ContentFailedRows(runs[r].job) :
                     /\ log[k].error_message # None
                     /\ jobs[runs[r].job].error_message = log[k].error_message
               /\ GenerationCompletedRows(runs[r].job) = {}

\* C20, as the code has it: the content_generation/failed row carries the
\* text 'Presentation generation failed', the Job is failed with the
\* error_message 'Failed to generate presentation content', which replaces
\* the exception text the assembler recorded, and the log has no
\* generation_completed row.
C20_AssemblerFailureTexts ==
    \A r \in RunIds :
        AssemblerFailed(r)
            => /\ jobs[runs[r].job].status = "failed"
               /\ \A k \in ContentFailedRows(runs[r].job) :
                     log[k].error_message = ContentFailedLogMessage
               /\ jobs[runs[r].job].error_message = ContentFailedMessage
               /\ GenerationCompletedRows(runs[r].job) = {}

\* a run ended after a slide of its Job failed
C20_Witness ==
    \E r \in RunIds :
        /\ AssemblerFailed(r)
        /\ runs[r].pc = "done"
        /\ runs[r].i < runs[r].n
        /\ Cardinality(ContentFailedRows(runs[r].job)) = 1
        /\ jobs[runs[r].job].status = "failed"

----------------------------------------------------------------------------
(* The run's catch-all *)

\* the latest GenerationLog row of Job j is the generation_error row of the
\* run's catch-all
LastRowIsError(j) ==
    /\ LogRowsOf(j) # << >>
    /\ LogRowsOf(j)[Len(LogRowsOf(j))] =
           LogRow(j, "generation_error", "failed", ExceptionText)

\* run r went through the catch-all of lines 141-156 and is past it, and no
\* other run of the same Job has acted since
EndedInCatchAll(r) ==
    /\ runs[r].pc \in {"fin_time", "fin_del", "done"}
    /\ Exists(runs[r].job)
    /\ LastRowIsError(runs[r].job)
    /\ ExecutingRuns(runs[r].job) \subseteq {r}

----------------------------------------------------------------------------
(* The assembler's boundary *)

\* positions of a run inside generate_presentation
AssemblerPcs == {"asm_load", "asm_generating", "asm_slide", "asm_assembling",
                 "asm_save", "asm_exc"}

\* C22: a run inside the assembler leaves it only by a return: with true
\* after the file was written and recorded, or with false and the Job
\* failed with an error_message; never by an exception reaching the
\* catch-all of the run.
C22_AssemblerNeverPropagates ==
    [][\A r \in RunIds :
          runs[r].pc \in AssemblerPcs =>
              /\ runs'[r].pc \in AssemblerPcs
                                  \cup {"log_completed", "log_content_failed"}
              /\ runs'[r].pc = "log_completed" =>
                     jobs'[runs[r].job].file_path # None
              /\ runs'[r].pc = "log_content_failed" =>
                     /\ jobs'[runs[r].job].status = "failed"
                     /\ jobs'[runs[r].job].error_message # None]_vars

----------------------------------------------------------------------------
(* Progress checkpoints *)

\* C23: the progress persisted with a status is the checkpoint of that
\* status: researching 10, planning 30, generating between 50 and 90,
\* assembling 90, completed 100.
C23_ProgressCheckpoints ==
    \A j \in DOMAIN jobs :
        LET st == jobs[j].status
            p == jobs[j].progress
        IN /\ st = "researching" => p = 10
           /\ st = "planning" => p = 30
           /\ st = "generating" => 50 <= p /\ p <= 90
           /\ st = "assembling" => p = 90
           /\ st = "completed" => p = 100

----------------------------------------------------------------------------
(* Audit trail *)

\* the GenerationLog rows that record a failure or a cancellation of Job j
FailureRows(j) ==
    {LogRow(j, "content_generation", "failed", ContentFailedLogMessage),
     LogRow(j, "generation_error", "failed", ExceptionText),
     LogRow(j, "generation_cancelled", "completed", None)}

\* C24: whenever a Job's status becomes failed, the latest log row of the
\* Job before that step is the row recording the failure or cancellation.
C24_LogBeforeFailed ==
    [][\A j \in DOMAIN jobs :
          jobs[j].status # "failed" /\ jobs'[j].status = "failed" =>
              /\ LogRowsOf(j) # << >>
              /\ LogRowsOf(j)[Len(LogRowsOf(j))] \in FailureRows(j)]_vars

----------------------------------------------------------------------------
(* A run for a missing Job *)

----------------------------------------------------------------------------
(* Elapsed time *)

\* C26: a run ends only through the finally block; its step out of the
\* first half of the block persists generation_time on its Job, and the Job
\* of a run that is past that step carries a generation_time.
C26_GenerationTimePersisted ==
    [][\A r \in RunIds :
          Exists(runs'[r].job) =>
              /\ runs'[r].pc = "done" /\ runs[r].pc # "done" =>
                     runs[r].pc = "fin_del"
              /\ runs'[r].pc = "fin_del" /\ runs[r].pc # "fin_del" =>
                     /\ runs[r].pc = "fin_time"
                     /\ jobs'[runs[r].job].generation_time = "set"
              /\ runs'[r].pc \in {"fin_del", "done"} =>
                     jobs'[runs'[r].job].generation_time # None]_vars

\* a run that ended by a handled assembler failure, with the time persisted
C26_Witness ==
    \E r \in RunIds :
        /\ At(r, "done")
        /\ Exists(runs[r].job)
        /\ jobs[runs[r].job].status = "failed"
        /\ jobs[runs[r].job].error_message = ContentFailedMessage
        /\ jobs[runs[r].job].generation_time = "set"

----------------------------------------------------------------------------
(* Citation indices *)

\* the positions of ids holding an index within 1..m
InRange(ids, m) == {k \in DOMAIN ids : ids[k] \in 1..m}

\* C27: an iteration of the slide loop adds one Citation row for each
\* index of the slide content that lies in 1..m, m being the number of
\* research items shown to the slide, and no other row; an index outside
\* 1..m does not fail the iteration, which fails only on a row the Job
\* already has.
C27_CitationIffInRange ==
    [][\A r \in RunIds :
          At(r, "asm_slide") /\ runs'[r] # runs[r] =>
              LET j == runs[r].job
                  ids == runs'[r].cits
                  m == SlideResearchLen(runs[r].nres)
              IN IF runs'[r].pc = "asm_exc"
                 THEN \/ [presentation_id |-> j,
                          slide_number |-> runs[r].outline[runs[r].i + 1]]
                             \in slides
                      \/ \E k \in DOMAIN citations :
                             /\ citations[k].presentation_id = j
                             /\ citations[k].citation_number >= runs[r].cc
                 ELSE Len(citations') - Len(citations)
                          = Cardinality(InRange(ids, m))]_vars

----------------------------------------------------------------------------
(* Cache writes and reads *)

\* this step is a call of cache operation op
CacheCall(op) == lastop'.seq # lastop.seq /\ lastop'.op = op

\* C28: after a put the key holds one row with the payload and the expiry
\* of the put; its hit_count is one more than before when the key held a
\* live row, and 1 when the key held no row or an expired one.
C28_PutUpsertsByLiveness ==
    [][CacheCall("put") =>
          LET ns == lastop'.namespace
              k == CacheKey(ns, lastop'.query)
          IN /\ k \in DOMAIN cache'
             /\ cache'[k].results_json = json_dumps(Payload(ns, lastop'.value))
             /\ cache'[k].expires_at = now + cache_duration_hours(ns)
             /\ cache'[k].hit_count =
                    IF Live(k) THEN cache[k].hit_count + 1 ELSE 1]_vars

\* both request threads have returned from a put of the same key that
\* found no row
ConcurrentMisses ==
    /\ \A c \in Callers :
           /\ calls[c].op = "put"
           /\ calls[c].pc = "returned"
           /\ ~calls[c].ret.existing
    /\ \A c, d \in Callers :
           /\ calls[c].ret.namespace = calls[d].ret.namespace
           /\ calls[c].ret.query = calls[d].ret.query

\* C29: after two puts of the same key that both found no row, neither
\* has raised, the key holds one row, and the row carries the payload of
\* the put whose commit came last.
C29_LastWriterWins ==
    ConcurrentMisses =>
        LET ns == lastop.namespace
            k == CacheKey(ns, lastop.query)
        IN /\ \A c \in Callers : ~calls[c].ret.raised
           /\ Cached(k)
           /\ cache[k].results_json = json_dumps(Payload(ns, lastop.value))

\* C30: a get of a key without a live row leaves every cache row as it is;
\* a get of a key with a live row raises the hit_count of that row by 1 and
\* changes nothing else. No step lowers the hit_count of a row or removes
\* a row, and every row has a hit_count of at least 1.
C30_GetLazyExpiry ==
    [][/\ CacheCall("get") =>
              LET k == CacheKey(lastop'.namespace, lastop'.query)
              IN IF Live(k)
                 THEN cache' = [cache EXCEPT ![k].hit_count = @ + 1]
                 ELSE cache' = cache
       /\ \A k \in DOMAIN cache :
              /\ k \in DOMAIN cache'
              /\ cache'[k].hit_count >= cache[k].hit_count
       /\ \A k \in DOMAIN cache' : cache'[k].hit_count >= 1]_vars

\* a get that found an expired row and left it in place
C30_Witness ==
    /\ lastop.op = "get"
    /\ lastop.value = PyNone
    /\ LET k == CacheKey(lastop.namespace, lastop.query)
       IN /\ Cached(k)
          /\ cache[k].expires_at <= lastop.at
          /\ cache[k].hit_count = 2

----------------------------------------------------------------------------
(* Cleanup of the cache *)

\* C31: a cleanup with retention d removes the translation rows whose
\* expiry lies more than d days before now and no other row, leaves every
\* remaining row as it was, and returns the number of rows removed.
C31_SweepExact ==
    [][CacheCall("sweep") =>
          LET cutoff == now - lastop'.days_old * HoursPerDay
              gone == DOMAIN cache \ DOMAIN cache'
          IN /\ DOMAIN cache' \subseteq DOMAIN cache
             /\ \A k \in DOMAIN cache :
                    k \in gone <=> /\ cache[k].source_type = "translation"
                                   /\ cache[k].expires_at < cutoff
             /\ \A k \in DOMAIN cache' : cache'[k] = cache[k]
             /\ lastop'.value = PyInt(Cardinality(gone))]_vars

\* a cleanup that removed a translation and left an expired row of the
\* research service in place
C31_Witness ==
    /\ lastop.op = "sweep"
    /\ lastop.value = PyInt(1)
    /\ \E k \in DOMAIN cache :
           /\ cache[k].source_type = "web"
           /\ cache[k].expires_at < lastop.at - lastop.days_old * HoursPerDay
    /\ \A k \in DOMAIN cache : cache[k].source_type # "translation"

----------------------------------------------------------------------------
(* Research *)

\* C32: a research call returns a list of at most max_results records:
\* on a hit the first records of the cached list, on a miss the first
\* records of the answers of the sources that did not fail, encyclopedia
\* first, then papers, then web.
C32_ResearchDegrades ==
    [][CacheCall("research") =>
          LET o == lastop'
              k == CacheKey("web", o.query)
              answers == (IF o.wikipedia_fails THEN << >>
                          ELSE WikipediaResults)
                         \o (IF o.arxiv_fails THEN << >> ELSE ArxivResults)
                         \o _simulate_web_search(o.query)
              from == IF Live(k) THEN json_loads(cache[k].results_json).value
                      ELSE answers
          IN /\ o.value.kind = "list"
             /\ Len(o.value.value) <= o.max_results
             /\ \A n \in DOMAIN o.value.value : o.value.value[n] = from[n]
             /\ Len(o.value.value) = Min(o.max_results, Len(from))]_vars

\* a miss with the encyclopedia failing: the papers come first, cut to
\* max_results
C32_Witness ==
    /\ lastop.op = "research"
    /\ lastop.wikipedia_fails
    /\ ~lastop.arxiv_fails
    /\ lastop.max_results = 2
    /\ lastop.value = PyList(<<"a1", "a2">>)
    /\ cache[CacheKey("web", lastop.query)].hit_count = 1

----------------------------------------------------------------------------
(* The log *)

\* C33: every step leaves the rows the log has, in their order, and at
\* most adds rows after them: for each Job and for the log as a whole.
C33_LogAppendOnly ==
    [][/\ IsPrefix(log, log')
       /\ \A j \in JobIds :
              IsPrefix(SelectSeq(log, LAMBDA e : e.presentation_id = j),
                       SelectSeq(log', LAMBDA e : e.presentation_id = j))]_vars

\* the log of a Job that was started, failed in the run's catch-all and
\* was then cancelled
C33_Witness ==
    \E j \in ExistingJobs :
        /\ LogRowsOf(j) # << >>
        /\ LogRowsOf(j)[1] = LogRow(j, "generation_started", "started", None)
        /\ \E k \in DOMAIN log :
               /\ log[k] = LogRow(j, "generation_error", "failed",
                                  ExceptionText)
               /\ \E m \in DOMAIN log :
                      /\ m > k
                      /\ log[m] = LogRow(j, "generation_cancelled",
                                         "completed", None)

----------------------------------------------------------------------------
(* Translation *)

\* the columns of a Slide row that are not text
Layout(rows) ==
    {[presentation_id |-> x.presentation_id, slide_number |-> x.slide_number,
      slide_type |-> x.slide_type] : x \in rows}

\* C34: a translate call leaves the Citation rows, the number of Slide
\* rows and each row's Job, number and type as they are, and of the Job
\* changes at most the title and the language; for a missing Job or an
\* unsupported language it returns false and changes no row at all.
C34_TranslateKeepsNumbering ==
    [][\A c \in Callers :
          (ncalls' = ncalls + 1 /\ calls'[c].op = "translate"
              /\ calls'[c] # calls[c]) =>
              LET j == calls'[c].job
              IN /\ citations' = citations
                 /\ Layout(slides') = Layout(slides)
                 /\ Cardinality(slides') = Cardinality(slides)
                 /\ DOMAIN jobs' = DOMAIN jobs
                 /\ \A i \in DOMAIN jobs :
                        \A f \in DOMAIN jobs[i] \ {"title", "language"} :
                            jobs'[i][f] = jobs[i][f]
                 /\ \A i \in DOMAIN jobs \ {j} : jobs'[i] = jobs[i]
                 /\ (~Exists(j)
                        \/ calls'[c].target_language \notin supported_languages)
                       => /\ calls'[c].ret = FALSE
                          /\ UNCHANGED <<jobs, slides, citations, cache>>
                 /\ calls'[c].ret = TRUE => jobs'[j].language
                                               = calls'[c].target_language]_vars

\* a presentation of three slides translated twice
C34_Witness ==
    /\ calls[MainCaller].op = "translate"
    /\ calls[MainCaller].ret = TRUE
    /\ jobs[1].language = "fr"
    /\ jobs[1].title = "[FR] [FR] Cats"
    /\ Cardinality(slides) = 3
    /\ \E x \in slides : /\ x.slide_number = 3
                          /\ x.bullet_points = <<"[FR] [FR] Point">>

----------------------------------------------------------------------------
(* Retry *)

\* the rows a failing run writes to the log of Job j
RunFailureRows(j) ==
    {LogRow(j, "content_generation", "failed", ContentFailedLogMessage),
     LogRow(j, "generation_error", "failed", ExceptionText)}

\* run r is a retry of its Job, about to assemble its first slide: an
\* earlier run of the Job has ended in failure leaving Slide rows, no other
\* run of the Job is executing, and no capability has failed in r
CleanRetry(r) ==
    /\ Exists(runs[r].job)
    /\ ExecutingRuns(runs[r].job) = {r}
    /\ \E q \in RunIds \ {r} :
           runs[q].pc = "done" /\ runs[q].job = runs[r].job
    /\ \E k \in DOMAIN LogRowsOf(runs[r].job) :
           LogRowsOf(runs[r].job)[k] \in RunFailureRows(runs[r].job)
    /\ SlidesOf(runs[r].job) # {}
    /\ runs[r].i = 0
    /\ ~runs[r].cap_failed

\* C35: in a retry in which no capability fails, no iteration of the slide
\* loop fails, so that the run goes on to completed.
C35_RetryCompletes ==
    [][\A r \in RunIds :
          (CleanRetry(r) /\ At(r, "asm_slide") /\ runs'[r] # runs[r])
              => runs'[r].pc # "asm_exc"]_vars

----------------------------------------------------------------------------
(* The finalizer and a newer registration *)

\* the registry entry of Job j, when it has one
EntryOf(j) == registry[CHOOSE k \in DOMAIN registry : registry[k].id = j]

\* the Job of run r was cancelled, and a later start has registered another
\* run, still executing, for it
Superseded(r) ==
    /\ Exists(runs[r].job)
    /\ Registered(runs[r].job)
    /\ EntryOf(runs[r].job).thread # r
    /\ Executing(EntryOf(runs[r].job).thread)
    /\ \E k \in DOMAIN LogRowsOf(runs[r].job) :
           LogRowsOf(runs[r].job)[k] =
               LogRow(runs[r].job, "generation_cancelled", "completed", None)

\* C36: the last step of a run whose Job has meanwhile been registered for
\* a newer run leaves the registry as it is.
C36_FinalizerReleasesOwn ==
    [][\A r \in RunIds :
          (Superseded(r) /\ At(r, "fin_del") /\ runs'[r].pc = "done")
              => registry' = registry]_vars

----------------------------------------------------------------------------
(* Termination of a run *)

TerminalStatuses == {"completed", "failed"}

\* run r takes its last step, and no other run of its Job is executing
EndsAlone(r) ==
    /\ runs[r].pc # "done"
    /\ runs'[r].pc = "done"
    /\ \A q \in RunIds \ {r} : runs[q].job = runs[r].job => ~Executing(q)

\* C37: every run of an existing Job eventually ends, and the step that
\* ends it while no other run of the Job is executing leaves the Job
\* completed or failed, cancelled or not.
C37_RunsEndTerminal ==
    /\ \A r \in RunIds :
           (Executing(r) /\ Exists(runs[r].job)) ~> (runs[r].pc = "done")
    /\ [][\A r \in RunIds :
             (EndsAlone(r) /\ Exists(runs[r].job))
                 => jobs'[runs[r].job].status \in TerminalStatuses]_vars

\* the only run of a Job has ended in completed although the Job was
\* cancelled while it ran
C37_Witness ==
    \E r \in RunIds :
        /\ runs[r].pc = "done"
        /\ Exists(runs[r].job)
        /\ LaunchedRuns(runs[r].job) = {r}
        /\ jobs[runs[r].job].status = "completed"
        /\ \E k \in DOMAIN LogRowsOf(runs[r].job) :
               LogRowsOf(runs[r].job)[k] =
                   LogRow(runs[r].job, "generation_cancelled", "completed", None)

====
